---- MODULE Spec2Model ----
(***************************************************************************)
(* The PayNow component documentation MCP server                            *)
(* (src/paynow_component_docs_mcp_server/server.py).                        *)
(*                                                                         *)
(* The host delivers requests over the stdio stream; each request is       *)
(* handled by one of the four handlers registered in serve(): list_tools,  *)
(* list_prompts, call_tool and get_prompt.  call_tool and get_prompt call  *)
(* search_paynow_component_documentation, which performs a synchronous     *)
(* HTTP GET with the requests library.                                     *)
(*                                                                         *)
(* Python strings are modelled as sequences of tokens, so that the empty   *)
(* string is <<>> and concatenation is \o.                                 *)
(***************************************************************************)
EXTENDS Naturals, Sequences, FiniteSets, TLC

\* Number of requests the host delivers in one run.
MaxTasks == 2
\* Largest number of consecutive connection attempts the network drops.
MaxFails == 1

Task == 1..MaxTasks

VARIABLES
    tasks,   \* the requests of the host: position, inputs and outcome
    loop,    \* the task that holds the thread of the event loop, 0 when free
    remote   \* how the service has answered each query so far

vars == << tasks, loop, remote >>

----------------------------------------------------------------------------
\* Python values that can appear in an argument mapping.

Str(s) == [type |-> "str", s |-> s]
None == [type |-> "NoneType", s |-> <<>>]

EmptyQuery == <<>>
RefundQuery == <<"refund policy">>

\* The search function has not been called.
NoCall == [type |-> "<not called>", s |-> <<>>]

ToolName == <<"search_paynow_component_documentation">>
OtherName == <<"some_other_name">>
Names == {ToolName, OtherName}

\* An argument mapping is null (None) or a dict, given as its set of items.
NullArgs == [null |-> TRUE, map |-> {}]
Dict(items) == [null |-> FALSE, map |-> items]
Item(k, v) == [k |-> k, v |-> v]

ArgChoices ==
    { NullArgs,
      Dict({}),
      Dict({Item("lang", Str(<<"en">>))}),
      Dict({Item("query", Str(EmptyQuery))}),
      Dict({Item("query", Str(RefundQuery))}),
      Dict({Item("query", None)}) }

HasKey(m, k) == \E p \in m : p.k = k
Get(m, k) == (CHOOSE p \in m : p.k = k).v

\* "not arguments": None and the empty dict are both falsy.
Falsy(arguments) == arguments.null \/ arguments.map = {}
\* "arguments or {}"
OrEmpty(arguments) == IF Falsy(arguments) THEN {} ELSE arguments.map

----------------------------------------------------------------------------
\* The remote service and the HTTP transport.

URL == << "h", "t", "t", "p", "s", ":", "/", "/", "mcp.owlting.com",
          "/paynow-component-docs/get-paynow-component-documentation" >>
HttpPrefix == << "h", "t", "t", "p", ":", "/", "/" >>
HttpsPrefix == << "h", "t", "t", "p", "s", ":", "/", "/" >>

MaxRetries == 3

StartsWith(s, p) == Len(p) <= Len(s) /\ SubSeq(s, 1, Len(p)) = p

\* requests.Session(): both schemes are mounted with a default HTTPAdapter,
\* whose max_retries is 0.
DefaultAdapters == { [prefix |-> HttpsPrefix, max_retries |-> 0],
                     [prefix |-> HttpPrefix, max_retries |-> 0] }

\* session.mount(prefix, adapter) replaces the adapter of that prefix.
Mount(adapters, prefix, retries) ==
    { a \in adapters : a.prefix /= prefix }
        \cup { [prefix |-> prefix, max_retries |-> retries] }

\* The session search_paynow_component_documentation builds on every call.
SessionAdapters == Mount(DefaultAdapters, HttpPrefix, MaxRetries)

\* Session.get_adapter(url): the adapter whose prefix the url starts with
\* (longest prefix first).
GetAdapter(adapters, url) ==
    CHOOSE a \in adapters :
        /\ StartsWith(url, a.prefix)
        /\ \A b \in adapters :
              StartsWith(url, b.prefix) => Len(b.prefix) <= Len(a.prefix)

\* What the service sees of the query: requests drops a None-valued
\* parameter, and sends a string as it is.
WireQuery(v) ==
    IF v.type = "NoneType" THEN [present |-> FALSE, s |-> <<>>]
    ELSE [present |-> TRUE, s |-> v.s]

RefundBody == <<"Refund policy: ...">>
EmptyBody == <<>>
ErrorBody == <<"Internal Server Error">>

\* The behaviour of the service for one query: the first `fails` connection
\* attempts of a call are dropped, then the service either answers with a
\* status and a body or lets the read time out.  A service that drops
\* attempts answers the attempt that gets through with RefundBody.
Outcomes ==
    { [fails |-> 0, kind |-> "response", status |-> 200, body |-> b] :
         b \in {RefundBody, EmptyBody} }
    \cup { [fails |-> 0, kind |-> "response", status |-> 500, body |-> ErrorBody],
           [fails |-> 0, kind |-> "timeout", status |-> 0, body |-> <<>>] }
    \cup { [fails |-> k, kind |-> "response", status |-> 200, body |-> RefundBody] :
         k \in 1..MaxFails }

NoException == <<>>
ConnectionError == <<"ConnectionError(MaxRetryError(...))">>
ReadTimeout == <<"ReadTimeout(ReadTimeoutError(...))">>
HTTPError(status) ==
    IF status >= 500 THEN <<"HTTPError('", "5xx", " Server Error')">>
    ELSE <<"HTTPError('", "4xx", " Client Error')">>

\* HTTPAdapter.send with Retry(total = retries, read = False): a dropped
\* connection attempt is retried while the budget lasts; a read timeout and
\* a response of any status are not retried.
RECURSIVE Attempt(_, _, _)
Attempt(i, retriesLeft, o) ==
    IF i < o.fails
    THEN IF retriesLeft > 0
         THEN Attempt(i + 1, retriesLeft - 1, o)
         ELSE [attempts |-> i + 1, exc |-> ConnectionError,
               status |-> 0, body |-> <<>>]
    ELSE IF o.kind = "timeout"
         THEN [attempts |-> i + 1, exc |-> ReadTimeout,
               status |-> 0, body |-> <<>>]
         ELSE [attempts |-> i + 1, exc |-> NoException,
               status |-> o.status, body |-> o.body]

\* session.get(URL, params = ..., timeout = 30)
SessionGet(adapters, url, o) ==
    Attempt(0, GetAdapter(adapters, url).max_retries, o)

\* The status of the response is never looked at.
NoRaiseForStatus(resp) == resp.exc

\* resp.raise_for_status()
RaiseForStatus(resp) ==
    IF resp.exc = NoException /\ resp.status >= 400 /\ resp.status < 600
    THEN HTTPError(resp.status)
    ELSE resp.exc

\* The text is appended to a buffer that outlives the call.
RespTextBuffered(resp) ==
    LET prev == { u \in Task : /\ tasks[u].pc = "done"
                               /\ tasks[u].attempts > 0
                               /\ tasks[u].out.kind = "return" }
    IN  IF prev = {} THEN resp.body
        ELSE tasks[CHOOSE u \in prev : TRUE].out.content[1].text \o resp.body

\* "resp.text or <placeholder>": an empty body is replaced.
RespTextOrPlaceholder(resp) ==
    IF resp.body = <<>> THEN <<"No results">> ELSE resp.body

\* resp.text
RespText(resp) == resp.body

----------------------------------------------------------------------------
\* Protocol values.

INVALID_PARAMS == "INVALID_PARAMS"
INTERNAL_ERROR == "INTERNAL_ERROR"

NoOut ==
    [kind |-> "none", code |-> "", message |-> <<>>, description |-> <<>>,
     content |-> <<>>]

\* raise McpError(ErrorData(code = code, message = message))
McpError(code, message) ==
    [kind |-> "raise", code |-> code, message |-> message,
     description |-> <<>>, content |-> <<>>]

TextContent(role, text) ==
    [role |-> role, type |-> "text", text |-> text, required |-> {}]

Returned(description, content) ==
    [kind |-> "return", code |-> "", message |-> <<>>,
     description |-> description, content |-> content]

FailedPrefix == <<"Failed to search documentation: ">>

\* search_paynow_component_documentation(query), against a service that
\* behaves as o for this query.
Search(query, o) ==
    LET resp == SessionGet(SessionAdapters, URL, o)
        exc == RaiseForStatus(resp)
    IN  IF exc = NoException
        THEN [raised |-> FALSE, attempts |-> resp.attempts,
              text |-> RespText(resp), error |-> NoOut]
        ELSE [raised |-> TRUE, attempts |-> resp.attempts, text |-> <<>>,
              error |-> McpError(INTERNAL_ERROR, FailedPrefix \o exc)]

\* `query` declared with a default of "" instead of as required.
SearchArgsOptional(m) ==
    IF ~HasKey(m, "query")
    THEN [ok |-> TRUE, query |-> Str(<<>>), message |-> <<>>]
    ELSE IF Get(m, "query").type /= "str"
    THEN [ok |-> FALSE, query |-> NoCall,
          message |-> <<"1 validation error for SearchArgs", "query",
                        "Input should be a valid string">>]
    ELSE [ok |-> TRUE, query |-> Get(m, "query"), message |-> <<>>]

\* `query` declared with min_length = 1.
SearchArgsNonEmpty(m) ==
    IF ~HasKey(m, "query")
    THEN [ok |-> FALSE, query |-> NoCall,
          message |-> <<"1 validation error for SearchArgs", "query",
                        "Field required">>]
    ELSE IF Get(m, "query").type /= "str"
    THEN [ok |-> FALSE, query |-> NoCall,
          message |-> <<"1 validation error for SearchArgs", "query",
                        "Input should be a valid string">>]
    ELSE IF Get(m, "query").s = <<>>
    THEN [ok |-> FALSE, query |-> NoCall,
          message |-> <<"1 validation error for SearchArgs", "query",
                        "String should have at least 1 character">>]
    ELSE [ok |-> TRUE, query |-> Get(m, "query"), message |-> <<>>]

\* SearchArgs(**m): `query` is a required field of type str; other keys are
\* ignored.  The message is str() of the pydantic validation error.
SearchArgs(m) ==
    IF ~HasKey(m, "query")
    THEN [ok |-> FALSE, query |-> NoCall,
          message |-> <<"1 validation error for SearchArgs", "query",
                        "Field required">>]
    ELSE IF Get(m, "query").type /= "str"
    THEN [ok |-> FALSE, query |-> NoCall,
          message |-> <<"1 validation error for SearchArgs", "query",
                        "Input should be a valid string">>]
    ELSE [ok |-> TRUE, query |-> Get(m, "query"), message |-> <<>>]

\* call_tool rejecting a name other than the registered one.
ToolArgsNamed(name, arguments) ==
    IF name /= ToolName
    THEN [ok |-> FALSE, query |-> NoCall, message |-> <<"Unknown tool">>]
    ELSE SearchArgs(OrEmpty(arguments))

\* call_tool, up to the call of the search function.
ToolArgs(name, arguments) == SearchArgs(OrEmpty(arguments))

\* call_tool, after the search function has returned or raised.
CallToolOut(r) ==
    IF r.raised THEN r.error
    ELSE Returned(<<>>, << TextContent("", r.text) >>)

\* get_prompt testing the truth of arguments.get("query") instead of the
\* presence of the key.
PromptArgsTruthy(name, arguments) ==
    IF \/ Falsy(arguments)
       \/ ~HasKey(arguments.map, "query")
       \/ Get(arguments.map, "query").s = <<>>
    THEN [ok |-> FALSE, query |-> NoCall, message |-> <<"Query is required">>]
    ELSE [ok |-> TRUE, query |-> Get(arguments.map, "query"), message |-> <<>>]

\* get_prompt, up to the call of the search function.
PromptArgs(name, arguments) ==
    IF Falsy(arguments) \/ ~HasKey(arguments.map, "query")
    THEN [ok |-> FALSE, query |-> NoCall, message |-> <<"Query is required">>]
    ELSE [ok |-> TRUE, query |-> Get(arguments.map, "query"), message |-> <<>>]

\* get_prompt without its except clause: the McpError propagates.
GetPromptOutRaising(r) ==
    IF r.raised THEN r.error
    ELSE Returned(<<"Search results">>, << TextContent("user", r.text) >>)

\* get_prompt, after the search function has returned or raised: str(e) of
\* an McpError is its message.
GetPromptOut(r) ==
    IF r.raised
    THEN Returned(<<"Search failed">>, << TextContent("user", r.error.message) >>)
    ELSE Returned(<<"Search results">>, << TextContent("user", r.text) >>)

ListToolsOut ==
    Returned(<<"Search PayNow Component documentation.">>,
             << [role |-> "", type |-> "tool", text |-> ToolName,
                 required |-> {"query"}] >>)

ListPromptsOut ==
    Returned(<<"Search PayNow Component documentation and return matching sections">>,
             << [role |-> "", type |-> "prompt", text |-> ToolName,
                 required |-> {"query"}] >>)

----------------------------------------------------------------------------
\* State.

Wire == { WireQuery(v) : v \in {Str(EmptyQuery), Str(RefundQuery), None} }

Unasked == [fails |-> 0, kind |-> "unasked", status |-> 0, body |-> <<>>]

NoTask ==
    [pc |-> "none", op |-> "", name |-> <<>>, arguments |-> NullArgs,
     query |-> NoCall, attempts |-> 0, out |-> NoOut]

Init ==
    /\ tasks = [t \in Task |-> NoTask]
    /\ loop = 0
    /\ remote = [w \in Wire |-> Unasked]

\* The host reads a request from the stream and schedules its handler.
Arrive(t, op, name, arguments) ==
    /\ tasks[t].pc = "none"
    /\ t > 1 => tasks[t - 1].pc /= "none"
    /\ tasks' = [tasks EXCEPT ![t] =
           [NoTask EXCEPT !.pc = "queued", !.op = op, !.name = name,
                          !.arguments = arguments]]
    /\ UNCHANGED << loop, remote >>

ArriveList(t) ==
    \E op \in {"list_tools", "list_prompts"} : Arrive(t, op, <<>>, NullArgs)

ArriveCall(t) ==
    \E op \in {"call_tool", "get_prompt"}, name \in Names, a \in ArgChoices :
        Arrive(t, op, name, a)

Finish(t, out) ==
    tasks' = [tasks EXCEPT ![t] = [@ EXCEPT !.pc = "done", !.out = out]]

list_tools(t) ==
    /\ loop = 0
    /\ tasks[t].pc = "queued" /\ tasks[t].op = "list_tools"
    /\ Finish(t, ListToolsOut)
    /\ UNCHANGED << loop, remote >>

list_prompts(t) ==
    /\ loop = 0
    /\ tasks[t].pc = "queued" /\ tasks[t].op = "list_prompts"
    /\ Finish(t, ListPromptsOut)
    /\ UNCHANGED << loop, remote >>

\* The handler runs from its start to session.get: it either raises
\* InvalidParameters or sends the request and waits for the answer inside
\* the synchronous call, holding the thread of the event loop.
Begin(t, args) ==
    /\ loop = 0
    /\ tasks[t].pc = "queued"
    /\ IF args.ok
       THEN /\ tasks' = [tasks EXCEPT ![t] =
                   [@ EXCEPT !.pc = "blocked", !.query = args.query]]
            /\ loop' = t
       ELSE /\ Finish(t, McpError(INVALID_PARAMS, args.message))
            /\ loop' = loop
    /\ UNCHANGED remote

\* session.get returns or raises, and the handler runs to its end.  A
\* deterministic service answers a query as it answered it before.
End(t, o, out) ==
    /\ loop = t
    /\ tasks[t].pc = "blocked"
    /\ remote[WireQuery(tasks[t].query)] \in {Unasked, o}
    /\ remote' = [remote EXCEPT ![WireQuery(tasks[t].query)] = o]
    /\ tasks' = [tasks EXCEPT ![t] =
           [@ EXCEPT !.pc = "done",
                     !.attempts = Search(tasks[t].query, o).attempts,
                     !.out = out]]
    /\ loop' = 0

call_tool_begin(t) ==
    /\ tasks[t].op = "call_tool"
    /\ Begin(t, ToolArgs(tasks[t].name, tasks[t].arguments))

call_tool_end(t) ==
    /\ tasks[t].op = "call_tool"
    /\ \E o \in Outcomes : End(t, o, CallToolOut(Search(tasks[t].query, o)))

get_prompt_begin(t) ==
    /\ tasks[t].op = "get_prompt"
    /\ Begin(t, PromptArgs(tasks[t].name, tasks[t].arguments))

get_prompt_end(t) ==
    /\ tasks[t].op = "get_prompt"
    /\ \E o \in Outcomes : End(t, o, GetPromptOut(Search(tasks[t].query, o)))

\* The handlers the event loop can start.
Start(t) ==
    list_tools(t) \/ list_prompts(t) \/ call_tool_begin(t) \/ get_prompt_begin(t)

Next ==
    \E t \in Task :
        \/ ArriveList(t)
        \/ ArriveCall(t)
        \/ list_tools(t)
        \/ list_prompts(t)
        \/ call_tool_begin(t)
        \/ call_tool_end(t)
        \/ get_prompt_begin(t)
        \/ get_prompt_end(t)

Spec == Init /\ [][Next]_vars

----------------------------------------------------------------------------
\* Vocabulary of the properties.

Done(t) == tasks[t].pc = "done"
\* The handler of t has run at least up to the call of the search function.
Started(t) == tasks[t].pc \in {"blocked", "done"}
\* How the service answers the query of t.
Answer(t) == remote[WireQuery(tasks[t].query)]

HasQuery(a) == ~a.null /\ HasKey(a.map, "query")
HasStrQuery(a) == HasQuery(a) /\ Get(a.map, "query").type = "str"

\* Every attempt of the call of t was dropped.
Dropped(t) == tasks[t].attempts <= Answer(t).fails
\* The service answered the call of t with a success status.
RemoteSucceeded(t) ==
    /\ Done(t) /\ tasks[t].attempts > 0 /\ ~Dropped(t)
    /\ Answer(t).kind = "response"
    /\ Answer(t).status >= 200 /\ Answer(t).status < 300
\* The remote call of t failed.
RemoteFailed(t) ==
    /\ Done(t) /\ tasks[t].attempts > 0
    /\ \/ Dropped(t)
       \/ Answer(t).kind = "timeout"
       \/ Answer(t).status >= 400
\* repr() of the failure of the remote call of t.
FailureRepr(t) ==
    IF Dropped(t) THEN ConnectionError
    ELSE IF Answer(t).kind = "timeout" THEN ReadTimeout
    ELSE HTTPError(Answer(t).status)

Contains(text, sub) ==
    \E i \in 1..(Len(text) + 1) :
        /\ i + Len(sub) - 1 <= Len(text)
        /\ SubSeq(text, i, i + Len(sub) - 1) = sub

IsCall(t, op) == tasks[t].op = op

----------------------------------------------------------------------------
\* C1: a tool invocation with a valid query string whose remote call is
\* answered with a success status and body B returns a list of exactly one
\* text-content item whose text is B, unchanged.
C1_ToolReturnsBody ==
    \A t \in Task :
        (IsCall(t, "call_tool") /\ HasStrQuery(tasks[t].arguments)
            /\ RemoteSucceeded(t))
        => /\ tasks[t].out.kind = "return"
           /\ Len(tasks[t].out.content) = 1
           /\ tasks[t].out.content[1].type = "text"
           /\ tasks[t].out.content[1].text = Answer(t).body

C1_Witness ==
    \E t, u \in Task :
        /\ IsCall(t, "call_tool") /\ RemoteSucceeded(t)
        /\ tasks[t].arguments = Dict({Item("query", Str(RefundQuery))})
        /\ tasks[t].out.content[1].text = RefundBody
        /\ IsCall(u, "call_tool") /\ RemoteSucceeded(u)
        /\ Answer(u).body = EmptyBody

\* C2: a tool invocation whose argument mapping has no `query` key (a null
\* or empty mapping included) raises InvalidParameters, and sends no request
\* to the remote service.
C2_ToolMissingQuery ==
    \A t \in Task :
        (IsCall(t, "call_tool") /\ tasks[t].pc /= "queued"
            /\ ~HasQuery(tasks[t].arguments))
        => /\ Done(t)
           /\ tasks[t].out.kind = "raise"
           /\ tasks[t].out.code = INVALID_PARAMS
           /\ tasks[t].query = NoCall
           /\ tasks[t].attempts = 0

C2_Witness ==
    \E t, u \in Task :
        /\ IsCall(t, "call_tool") /\ Done(t) /\ tasks[t].arguments = NullArgs
        /\ tasks[t].out.code = INVALID_PARAMS
        /\ IsCall(u, "call_tool") /\ Done(u)
        /\ tasks[u].arguments = Dict({Item("lang", Str(<<"en">>))})
        /\ tasks[u].out.code = INVALID_PARAMS

\* C3, as claimed: a tool invocation with {"query": ""} signals
\* InvalidParameters instead of calling the remote search function.
C3_EmptyQueryRejected ==
    \A t \in Task :
        (IsCall(t, "call_tool") /\ tasks[t].pc /= "queued"
            /\ tasks[t].arguments = Dict({Item("query", Str(EmptyQuery))}))
        => /\ Done(t)
           /\ tasks[t].out.kind = "raise"
           /\ tasks[t].out.code = INVALID_PARAMS
           /\ tasks[t].query = NoCall

\* C3, amended: a tool invocation accepts any `query` string, the empty one
\* included: {"query": ""} passes validation and the remote search function
\* is called with the empty string; InvalidParameters is signalled only
\* when `query` is missing or is not a string.
C3_AnyStringAccepted ==
    \A t \in Task :
        (IsCall(t, "call_tool") /\ tasks[t].pc /= "queued")
        => IF HasStrQuery(tasks[t].arguments)
           THEN /\ Started(t)
                /\ tasks[t].query = Get(tasks[t].arguments.map, "query")
                /\ tasks[t].out.code /= INVALID_PARAMS
                /\ Done(t) => tasks[t].attempts >= 1
           ELSE /\ Done(t)
                /\ tasks[t].out.kind = "raise"
                /\ tasks[t].out.code = INVALID_PARAMS
                /\ tasks[t].query = NoCall

C3_Witness ==
    \E t \in Task :
        /\ IsCall(t, "call_tool") /\ Done(t)
        /\ tasks[t].arguments = Dict({Item("query", Str(EmptyQuery))})
        /\ tasks[t].query = Str(EmptyQuery)
        /\ tasks[t].attempts >= 1

\* C4: a tool invocation with a valid query whose remote call fails (dropped
\* connection, timeout, or error status) raises an Internal error whose
\* message embeds the representation of the failure, and returns no content;
\* every kind of failure gives the same kind of error.
C4_ToolFailureIsInternal ==
    \A t \in Task :
        (IsCall(t, "call_tool") /\ HasStrQuery(tasks[t].arguments)
            /\ RemoteFailed(t))
        => /\ tasks[t].out.kind = "raise"
           /\ tasks[t].out.code = INTERNAL_ERROR
           /\ tasks[t].out.content = <<>>
           /\ tasks[t].out.message = FailedPrefix \o FailureRepr(t)

C4_Witness ==
    \E t, u \in Task :
        /\ IsCall(t, "call_tool") /\ RemoteFailed(t)
        /\ Answer(t).status = 500
        /\ tasks[t].out.code = INTERNAL_ERROR
        /\ IsCall(u, "call_tool") /\ RemoteFailed(u)
        /\ Answer(u).kind = "timeout"
        /\ tasks[u].out.code = INTERNAL_ERROR

\* C5: a prompt invocation with a null or empty mapping, or any mapping
\* without the key `query`, raises InvalidParameters with the message
\* "Query is required" and sends no request; a mapping with the key `query`,
\* whatever its value, passes the check and the remote search is called
\* with that value.
C5_PromptPresenceCheck ==
    \A t \in Task :
        (IsCall(t, "get_prompt") /\ tasks[t].pc /= "queued")
        => IF HasQuery(tasks[t].arguments)
           THEN /\ Started(t)
                /\ tasks[t].query = Get(tasks[t].arguments.map, "query")
                /\ tasks[t].out.code /= INVALID_PARAMS
                /\ Done(t) => tasks[t].attempts >= 1
           ELSE /\ Done(t)
                /\ tasks[t].out = McpError(INVALID_PARAMS, <<"Query is required">>)
                /\ tasks[t].query = NoCall
                /\ tasks[t].attempts = 0

C5_Witness ==
    \E t, u \in Task :
        /\ IsCall(t, "get_prompt") /\ Done(t)
        /\ tasks[t].arguments = Dict({})
        /\ tasks[t].out.message = <<"Query is required">>
        /\ IsCall(u, "get_prompt") /\ Done(u)
        /\ tasks[u].arguments = Dict({Item("query", Str(EmptyQuery))})
        /\ tasks[u].attempts >= 1

\* C6: a prompt invocation with the key `query` never raises: when the
\* remote call fails it returns a result with description "Search failed"
\* whose single message's text contains the representation of the failure,
\* and when it succeeds a result with description "Search results" whose
\* single message's text is the response body.
C6_PromptReturnsOnFailure ==
    \A t \in Task :
        (IsCall(t, "get_prompt") /\ Done(t) /\ HasQuery(tasks[t].arguments))
        => /\ tasks[t].out.kind = "return"
           /\ Len(tasks[t].out.content) = 1
           /\ tasks[t].out.content[1].role = "user"
           /\ RemoteFailed(t) \/ RemoteSucceeded(t)
           /\ RemoteFailed(t) =>
                 /\ tasks[t].out.description = <<"Search failed">>
                 /\ Contains(tasks[t].out.content[1].text, FailureRepr(t))
           /\ RemoteSucceeded(t) =>
                 /\ tasks[t].out.description = <<"Search results">>
                 /\ tasks[t].out.content[1].text = Answer(t).body

C6_Witness ==
    \E t, u \in Task :
        /\ IsCall(t, "get_prompt") /\ RemoteFailed(t)
        /\ tasks[t].out.description = <<"Search failed">>
        /\ IsCall(u, "get_prompt") /\ RemoteSucceeded(u)
        /\ tasks[u].out.description = <<"Search results">>

C8_RetriedBeforeFailure ==
    \A t \in Task :
        (Done(t) /\ tasks[t].attempts > 0 /\ Dropped(t))
        => tasks[t].attempts > MaxRetries

\* C9, as claimed: while one invocation waits for the remote response,
\* another handler the host has scheduled can start.
C9_YieldsWhileWaiting ==
    \A t, u \in Task :
        (tasks[t].pc = "blocked" /\ tasks[u].pc = "queued")
        => ENABLED Start(u)

\* C10: the invocation handlers do not depend on the name they are given:
\* two invocations of the same operation with the same arguments and
\* different names end with the same result, and InvalidParameters is raised
\* only for the arguments, never for the name.
C10_NameIgnored ==
    /\ \A t, u \in Task :
          (Done(t) /\ Done(u)
              /\ tasks[t].op = tasks[u].op
              /\ tasks[t].name /= tasks[u].name
              /\ tasks[t].arguments = tasks[u].arguments)
          => tasks[t].out = tasks[u].out
    /\ \A t \in Task :
          (Done(t) /\ tasks[t].out.kind = "raise"
              /\ tasks[t].out.code = INVALID_PARAMS)
          => \/ IsCall(t, "call_tool") /\ ~HasStrQuery(tasks[t].arguments)
             \/ IsCall(t, "get_prompt") /\ ~HasQuery(tasks[t].arguments)

C10_Witness ==
    \E t, u \in Task :
        /\ Done(t) /\ Done(u)
        /\ IsCall(t, "call_tool") /\ IsCall(u, "get_prompt")
        /\ tasks[t].name = OtherName /\ tasks[u].name = OtherName
        /\ RemoteSucceeded(t) /\ RemoteSucceeded(u)
        /\ tasks[t].out.kind = "return" /\ tasks[u].out.kind = "return"

====
